---- MODULE Spec2Model ----
(***************************************************************************)
(* pypacker/layer12/ieee80211.py: the frame-control codec, the dispatch    *)
(* key and the registry decoder_dict_complete, and the IE parser           *)
(* IEEE80211._unpack_ies.                                                  *)
(***************************************************************************)
EXTENDS Integers, Sequences, FiniteSets, TLC

VARIABLES
    pc,          \* position of the modelled run
    framectl,    \* IEEE80211.framectl
    orig,        \* framectl before the setter ran
    field,       \* the property a setter was applied to
    val,         \* the value handed to that setter
    before,      \* what each getter returned before the setter ran
    pos,         \* the registry loop: index into dicts
    todo,        \* the registry loop: keys of dicts[pos] not yet visited
    decoder_dict_complete,
    _handler,    \* pypacker.Packet._handler["IEEE80211"]
    key,         \* the key _dissect hands to _parse_handler
    handler,     \* the class _parse_handler resolved the key to
    params_off,  \* where the body's _dissect starts the IE bytes
    buf,         \* _unpack_ies: the bytes handed in
    off,         \* _unpack_ies: off
    ies,         \* _unpack_ies: ies
    rd           \* _unpack_ies: the highest index buf was subscripted with

codecVars == <<orig, field, val, before>>
registryVars == <<pos, todo, decoder_dict_complete, _handler>>
dispatchVars == <<key, handler, params_off>>
ieVars == <<buf, off, ies, rd>>
vars == <<pc, framectl, codecVars, registryVars, dispatchVars, ieVars>>

(***************************************************************************)
(* Python's int operators &, |, ~, << and >> on unbounded two's complement *)
(* integers. & and | work a byte at a time, on tables of the bytewise      *)
(* results built bit by bit.                                               *)
(***************************************************************************)
RECURSIVE BitAnd1(_, _)
BitAnd1(a, b) ==
    IF a = 0 \/ b = 0 THEN 0
    ELSE (a % 2) * (b % 2) + 2 * BitAnd1(a \div 2, b \div 2)

RECURSIVE BitOr1(_, _)
BitOr1(a, b) ==
    IF a = 0 THEN b
    ELSE IF b = 0 THEN a
    ELSE (IF a % 2 = 1 \/ b % 2 = 1 THEN 1 ELSE 0) + 2 * BitOr1(a \div 2, b \div 2)

AndTable == [x \in 0..255 |-> [y \in 0..255 |-> BitAnd1(x, y)]]
OrTable == [x \in 0..255 |-> [y \in 0..255 |-> BitOr1(x, y)]]

RECURSIVE BitAnd(_, _)
BitAnd(a, b) ==
    IF a = 0 \/ b = 0 THEN 0
    ELSE IF a = -1 THEN b
    ELSE IF b = -1 THEN a
    ELSE AndTable[a % 256][b % 256] + 256 * BitAnd(a \div 256, b \div 256)

RECURSIVE BitOr(_, _)
BitOr(a, b) ==
    IF a = 0 THEN b
    ELSE IF b = 0 THEN a
    ELSE IF a = -1 \/ b = -1 THEN -1
    ELSE OrTable[a % 256][b % 256] + 256 * BitOr(a \div 256, b \div 256)

BitNot(a) == -a - 1

Shl(a, n) == a * 2^n

Shr(a, n) == a \div 2^n

\* Bitshifts for Frame Control
_VERSION_MASK == 768
_TYPE_MASK == 3072
_SUBTYPE_MASK == 61440
_TO_DS_MASK == 1
_FROM_DS_MASK == 2
_MORE_FRAG_MASK == 4
_RETRY_MASK == 8
_PWR_MGT_MASK == 16
_MORE_DATA_MASK == 32
_PROTECTED_MASK == 64
_ORDER_MASK == 128
_VERSION_SHIFT == 8
_TYPE_SHIFT == 10
_SUBTYPE_SHIFT == 12
_TO_DS_SHIFT == 0
_FROM_DS_SHIFT == 1
_MORE_FRAG_SHIFT == 2
_RETRY_SHIFT == 3
_PWR_MGT_SHIFT == 4
_MORE_DATA_SHIFT == 5
_PROTECTED_SHIFT == 6
_ORDER_SHIFT == 7

_get_version(w) == Shr(BitAnd(w, _VERSION_MASK), _VERSION_SHIFT)

_set_version(v, w) == BitOr(Shl(v, _VERSION_SHIFT), BitAnd(w, BitNot(_VERSION_MASK)))

_get_type(w) == Shr(BitAnd(w, _TYPE_MASK), _TYPE_SHIFT)

_set_type(v, w) == BitOr(Shl(v, _TYPE_SHIFT), BitAnd(w, BitNot(_TYPE_MASK)))

_get_subtype(w) == Shr(BitAnd(w, _SUBTYPE_MASK), _SUBTYPE_SHIFT)

\* The setter without the clearing of the old bits: a mutant of _set_subtype.
_set_subtype_NoClear(v, w) == BitOr(Shl(v, _SUBTYPE_SHIFT), w)

_set_subtype(v, w) == BitOr(Shl(v, _SUBTYPE_SHIFT), BitAnd(w, BitNot(_SUBTYPE_MASK)))

_get_to_ds(w) == Shr(BitAnd(w, _TO_DS_MASK), _TO_DS_SHIFT)

_set_to_ds(v, w) == BitOr(Shl(v, _TO_DS_SHIFT), BitAnd(w, BitNot(_TO_DS_MASK)))

_get_from_ds(w) == Shr(BitAnd(w, _FROM_DS_MASK), _FROM_DS_SHIFT)

_set_from_ds(v, w) == BitOr(Shl(v, _FROM_DS_SHIFT), BitAnd(w, BitNot(_FROM_DS_MASK)))

_get_more_frag(w) == Shr(BitAnd(w, _MORE_FRAG_MASK), _MORE_FRAG_SHIFT)

_set_more_frag(v, w) == BitOr(Shl(v, _MORE_FRAG_SHIFT), BitAnd(w, BitNot(_MORE_FRAG_MASK)))

_get_retry(w) == Shr(BitAnd(w, _RETRY_MASK), _RETRY_SHIFT)

_set_retry(v, w) == BitOr(Shl(v, _RETRY_SHIFT), BitAnd(w, BitNot(_RETRY_MASK)))

_get_pwr_mgt(w) == Shr(BitAnd(w, _PWR_MGT_MASK), _PWR_MGT_SHIFT)

_set_pwr_mgt(v, w) == BitOr(Shl(v, _PWR_MGT_SHIFT), BitAnd(w, BitNot(_PWR_MGT_MASK)))

_get_more_data(w) == Shr(BitAnd(w, _MORE_DATA_MASK), _MORE_DATA_SHIFT)

_set_more_data(v, w) == BitOr(Shl(v, _MORE_DATA_SHIFT), BitAnd(w, BitNot(_MORE_DATA_MASK)))

_get_protected(w) == Shr(BitAnd(w, _PROTECTED_MASK), _PROTECTED_SHIFT)

_set_protected(v, w) == BitOr(Shl(v, _PROTECTED_SHIFT), BitAnd(w, BitNot(_PROTECTED_MASK)))

_get_order(w) == Shr(BitAnd(w, _ORDER_MASK), _ORDER_SHIFT)

_set_order(v, w) == BitOr(Shl(v, _ORDER_SHIFT), BitAnd(w, BitNot(_ORDER_MASK)))

\* The properties version .. order of IEEE80211: each name bound to its
\* getter and its setter.
Fields ==
    {"version", "type", "subtype", "to_ds", "from_ds", "more_frag", "retry",
     "pwr_mgt", "more_data", "protected", "order"}

PropertyGet(f, w) ==
    CASE f = "version" -> _get_version(w)
      [] f = "type" -> _get_type(w)
      [] f = "subtype" -> _get_subtype(w)
      [] f = "to_ds" -> _get_to_ds(w)
      [] f = "from_ds" -> _get_from_ds(w)
      [] f = "more_frag" -> _get_more_frag(w)
      [] f = "retry" -> _get_retry(w)
      [] f = "pwr_mgt" -> _get_pwr_mgt(w)
      [] f = "more_data" -> _get_more_data(w)
      [] f = "protected" -> _get_protected(w)
      [] f = "order" -> _get_order(w)

PropertySet(f, v, w) ==
    CASE f = "version" -> _set_version(v, w)
      [] f = "type" -> _set_type(v, w)
      [] f = "subtype" -> _set_subtype(v, w)
      [] f = "to_ds" -> _set_to_ds(v, w)
      [] f = "from_ds" -> _set_from_ds(v, w)
      [] f = "more_frag" -> _set_more_frag(v, w)
      [] f = "retry" -> _set_retry(v, w)
      [] f = "pwr_mgt" -> _set_pwr_mgt(v, w)
      [] f = "more_data" -> _set_more_data(v, w)
      [] f = "protected" -> _set_protected(v, w)
      [] f = "order" -> _set_order(v, w)

\* ("framectl", "H", 0): an unsigned 16-bit header field.
FramectlBits == 16

Words == 0 .. (2^FramectlBits - 1)

\* Width in bits of each sub-field: the number of one bits of its mask.
RECURSIVE PopCount(_)
PopCount(m) == IF m = 0 THEN 0 ELSE (m % 2) + PopCount(m \div 2)

FieldMask(f) ==
    CASE f = "version" -> _VERSION_MASK
      [] f = "type" -> _TYPE_MASK
      [] f = "subtype" -> _SUBTYPE_MASK
      [] f = "to_ds" -> _TO_DS_MASK
      [] f = "from_ds" -> _FROM_DS_MASK
      [] f = "more_frag" -> _MORE_FRAG_MASK
      [] f = "retry" -> _RETRY_MASK
      [] f = "pwr_mgt" -> _PWR_MGT_MASK
      [] f = "more_data" -> _MORE_DATA_MASK
      [] f = "protected" -> _PROTECTED_MASK
      [] f = "order" -> _ORDER_MASK

FieldValues(f) == 0 .. (2^PopCount(FieldMask(f)) - 1)

(***************************************************************************)
(* The codec: a packet holding any 16-bit framectl, one property set.      *)
(***************************************************************************)
InitCodec ==
    /\ pc = "packet"
    /\ framectl \in Words
    /\ orig = framectl
    /\ field = "none"
    /\ val = 0
    /\ before = [g \in Fields |-> PropertyGet(g, framectl)]
    /\ pos = 0 /\ todo = {} /\ decoder_dict_complete = <<>> /\ _handler = <<>>
    /\ key = -1 /\ handler = "none" /\ params_off = -1
    /\ buf = <<>> /\ off = 0 /\ ies = <<>> /\ rd = -1

SetProperty ==
    /\ pc = "packet"
    /\ \E f \in Fields : \E v \in FieldValues(f) :
        /\ framectl' = PropertySet(f, v, framectl)
        /\ field' = f
        /\ val' = v
    /\ orig' = framectl
    /\ UNCHANGED <<before, registryVars, dispatchVars, ieVars>>
    /\ pc' = "set"

NextCodec == SetProperty

SpecCodec == InitCodec /\ [][NextCodec]_vars

\* C1: setting a field to the value its getter returns leaves framectl
\* unchanged, and setting a field to a value that fits its width makes its
\* getter return that value and changes no other field's getter.
C1_RoundTripIsolation ==
    pc = "set" =>
        /\ (val = before[field] => framectl = orig)
        /\ \A g \in Fields :
            PropertyGet(g, framectl) = IF g = field THEN val ELSE before[g]
        /\ framectl \in Words

C1_Witness ==
    /\ pc = "set"
    /\ field = "subtype"
    /\ orig = 51264
    /\ val = 8
    /\ framectl = 34880

(***************************************************************************)
(* The registry decoder_dict_complete and the dispatch of _dissect.        *)
(***************************************************************************)
\* Frame Sub-Types
M_ASSOC_REQ == 0
M_ASSOC_RESP == 1
M_REASSOC_REQ == 2
M_REASSOC_RESP == 3
M_PROBE_REQ == 4
M_PROBE_RESP == 5
M_DISASSOC == 10
M_AUTH == 11
M_DEAUTH == 12
M_BEACON == 8

C_BLOCK_ACK_REQ == 8
C_BLOCK_ACK == 9
C_RTS == 11
C_CTS == 12
C_ACK == 13

D_NORMAL == 0
D_DATA_CF_ACK == 1
D_DATA_CF_POLL == 2
D_DATA_CF_ACK_POLL == 3
D_NULL == 4
D_CF_ACK == 5
D_CF_POLL == 6
D_CF_ACK_POLL == 7
D_QOS_DATA == 8
D_QOS_CF_ACK == 9
D_QOS_CF_POLL == 10
D_QOS_CF_ACK_POLL == 11
D_QOS_NULL == 12
D_QOS_CF_POLL_EMPTY == 14

\* needed to distinguish subtypes via types
TYPE_FACTORS == <<16, 32, 64>>
TYPE_FACTOR_PROTECTED == 128

\* A Python list indexed from 0.
ListGet(l, i) == l[i + 1]

m_decoder ==
    (M_BEACON :> "Beacon") @@ (M_ASSOC_REQ :> "AssocReq")
    @@ (M_ASSOC_RESP :> "AssocResp") @@ (M_DISASSOC :> "Disassoc")
    @@ (M_REASSOC_REQ :> "ReassocReq") @@ (M_REASSOC_RESP :> "AssocResp")
    @@ (M_AUTH :> "Auth") @@ (M_PROBE_REQ :> "ProbeReq")
    @@ (M_PROBE_RESP :> "ProbeResp") @@ (M_DEAUTH :> "Deauth")

c_decoder ==
    (C_RTS :> "RTS") @@ (C_CTS :> "CTS") @@ (C_ACK :> "ACK")
    @@ (C_BLOCK_ACK_REQ :> "BlockAckReq") @@ (C_BLOCK_ACK :> "BlockAck")

d_decoder ==
    (D_NORMAL :> "Dataframe") @@ (D_DATA_CF_ACK :> "Dataframe")
    @@ (D_DATA_CF_POLL :> "Dataframe") @@ (D_DATA_CF_ACK_POLL :> "Dataframe")
    @@ (D_NULL :> "Dataframe") @@ (D_CF_ACK :> "Dataframe")
    @@ (D_CF_POLL :> "Dataframe") @@ (D_CF_ACK_POLL :> "Dataframe")
    @@ (D_QOS_DATA :> "DataframeQos") @@ (D_QOS_CF_ACK :> "DataframeQos")
    @@ (D_QOS_CF_POLL :> "DataframeQos") @@ (D_QOS_CF_ACK_POLL :> "DataframeQos")
    @@ (D_QOS_NULL :> "DataframeQos") @@ (D_QOS_CF_POLL_EMPTY :> "DataframeQos")

\* position in list = type-ID
dicts == <<m_decoder, c_decoder, d_decoder>>

\* dict[k] = v: a new key is added, a present key is overwritten.
DictSet(d, k, v) == (k :> v) @@ d

\* Lines 569-574 without the elif branch: a mutant of SecuredEntry.
SecuredEntry_NoQos(p, k, v, d) ==
    IF p = 2
    THEN DictSet(d, ListGet(TYPE_FACTORS, 2) + k + TYPE_FACTOR_PROTECTED,
                 "DataframeSecured")
    ELSE d

\* add secured data frame versions for normal and QoS data
SecuredEntry(p, k, v, d) ==
    IF p = 2
    THEN IF v = "Dataframe"
         THEN DictSet(d, ListGet(TYPE_FACTORS, 2) + k + TYPE_FACTOR_PROTECTED,
                      "DataframeSecured")
         ELSE IF v = "DataframeQos"
         THEN DictSet(d, ListGet(TYPE_FACTORS, 2) + k + TYPE_FACTOR_PROTECTED,
                      "DataframeQosSecured")
         ELSE d
    ELSE d

\* The entry stored under the bare subtype, without the type factor: a mutant
\* of RegistryEntry.
RegistryEntry_NoFactor(p, k, v, d) ==
    SecuredEntry(p, k, v, DictSet(d, k, v))

\* One pass of the inner loop body for (key, val) of dicts[pos].
RegistryEntry(p, k, v, d) ==
    SecuredEntry(p, k, v, DictSet(d, ListGet(TYPE_FACTORS, p) + k, v))

\* The key computed with the protected bit added instead of the factor: a
\* mutant of DispatchKey.
DispatchKey_BitAdded(t, s, p) ==
    ListGet(TYPE_FACTORS, t) + s + (IF p = 1 THEN 1 ELSE 0)

\* TYPE_FACTORS[self.type] + self.subtype + protected_factor
DispatchKey(t, s, p) ==
    ListGet(TYPE_FACTORS, t) + s + (IF p = 1 THEN TYPE_FACTOR_PROTECTED ELSE 0)

\* struct.unpack(">H", buf[0:2])[0]
Unpack_H(b0, b1) == b0 * 256 + b1

\* Packet._parse_handler: the class registered for the key, if any.
_parse_handler(k) ==
    IF k \in DOMAIN _handler THEN _handler[k] ELSE "unrecognized"

\* ("dst", "6s", ...), ("frag_seq", "H", 0), ("ts", "Q", 0): the formats of a
\* body's __hdr__ up to its TriggerList field params.
Beacon_hdr == <<"6s", "6s", "6s", "H", "Q", "H", "H">>
ProbeReq_hdr == <<"6s", "6s", "6s", "H">>
AssocReq_hdr == <<"6s", "6s", "6s", "H", "H", "H">>
AssocResp_hdr == <<"6s", "6s", "6s", "H", "H", "H", "H">>

\* The bodies whose __hdr__ ends in ("params", None, TriggerList).
IeBodies == {"Beacon", "ProbeReq", "ProbeResp", "AssocReq", "AssocResp"}

\* class ProbeResp(Beacon): pass
BodyHdr(cls) ==
    CASE cls = "Beacon" -> Beacon_hdr
      [] cls = "ProbeResp" -> Beacon_hdr
      [] cls = "ProbeReq" -> ProbeReq_hdr
      [] cls = "AssocReq" -> AssocReq_hdr
      [] cls = "AssocResp" -> AssocResp_hdr

\* Bytes a struct format of __hdr__ takes.
FormatSize(fmt) ==
    CASE fmt = "6s" -> 6
      [] fmt = "B" -> 1
      [] fmt = "H" -> 2
      [] fmt = "Q" -> 8

RECURSIVE HdrLen(_)
HdrLen(h) == IF h = <<>> THEN 0 ELSE FormatSize(Head(h)) + HdrLen(Tail(h))

\* AssocResp._dissect starting the IEs where AssocReq does: a mutant of
\* BodyParamsOffset.
BodyParamsOffset_AssocReqForResp(cls) ==
    CASE cls = "Beacon" -> 32
      [] cls = "ProbeResp" -> 32
      [] cls = "ProbeReq" -> 20
      [] cls = "AssocReq" -> 24
      [] cls = "AssocResp" -> 24

\* self.params.init_lazy_dissect(buf[N:], IEEE80211._unpack_ies): N
BodyParamsOffset(cls) ==
    CASE cls = "Beacon" -> 32
      [] cls = "ProbeResp" -> 32
      [] cls = "ProbeReq" -> 20
      [] cls = "AssocReq" -> 24
      [] cls = "AssocResp" -> 26

InitDispatch ==
    /\ pc = "import"
    /\ pos = 0
    /\ todo = DOMAIN ListGet(dicts, 0)
    /\ decoder_dict_complete = <<>>
    /\ _handler = <<>>
    /\ framectl = 0
    /\ key = -1 /\ handler = "none" /\ params_off = -1
    /\ buf = <<>> /\ off = 0 /\ ies = <<>> /\ rd = -1
    /\ orig = 0 /\ field = "none" /\ val = 0 /\ before = <<>>
    /\ buf = <<>> /\ off = 0 /\ ies = <<>> /\ rd = -1

\* for pos, dict in enumerate(dicts): for key, val in dict.items(): ...
\* The order of dict.items() is left open.
BuildRegistry ==
    /\ pc = "import"
    /\ pos < Len(dicts)
    /\ \E k \in todo :
        /\ decoder_dict_complete' =
               RegistryEntry(pos, k, ListGet(dicts, pos)[k], decoder_dict_complete)
        /\ IF todo = {k}
           THEN /\ pos' = pos + 1
                /\ todo' = IF pos + 1 < Len(dicts)
                           THEN DOMAIN ListGet(dicts, pos + 1) ELSE {}
           ELSE /\ pos' = pos
                /\ todo' = todo \ {k}
    /\ UNCHANGED <<pc, framectl, _handler, codecVars, dispatchVars, ieVars>>

\* pypacker.Packet.load_handler(IEEE80211, decoder_dict_complete)
load_handler ==
    /\ pc = "import"
    /\ pos = Len(dicts)
    /\ _handler' = decoder_dict_complete
    /\ pc' = "loaded"
    /\ UNCHANGED <<framectl, pos, todo, decoder_dict_complete, codecVars, dispatchVars, ieVars>>

\* IEEE80211._dissect(buf)
_dissect ==
    /\ pc = "loaded"
    /\ \E b0 \in 0 .. 255 : \E b1 \in 0 .. 255 :
        LET w == Unpack_H(b0, b1) IN
        /\ framectl' = w
        /\ IF _get_type(w) < Len(TYPE_FACTORS)
           THEN /\ key' = DispatchKey(_get_type(w), _get_subtype(w), _get_protected(w))
                /\ handler' = _parse_handler(key')
                /\ pc' = "dissected"
           ELSE /\ key' = -1
                /\ handler' = "none"
                /\ pc' = "IndexError"
    /\ UNCHANGED <<params_off, registryVars, codecVars, ieVars>>

\* Beacon._dissect, ProbeReq._dissect, AssocReq._dissect, AssocResp._dissect
body_dissect ==
    /\ pc = "dissected"
    /\ handler \in IeBodies
    /\ params_off' = BodyParamsOffset(handler)
    /\ pc' = "body"
    /\ UNCHANGED <<framectl, key, handler, registryVars, codecVars, ieVars>>

NextDispatch == BuildRegistry \/ load_handler \/ _dissect \/ body_dissect

SpecDispatch == InitDispatch /\ [][NextDispatch]_vars

Dissected == pc \in {"dissected", "body"}

Imported == pc \in {"loaded", "dissected", "body", "IndexError"}

\* C2: the dispatch key is injective over type 0..2, subtype 0..15 and
\* protected 0..1: the key _dissect computed for a frame is the key of no
\* other (type, subtype, protected) triple.
C2_KeyInjective ==
    Dissected =>
        \A t \in 0 .. 2 : \A s \in 0 .. 15 : \A p \in 0 .. 1 :
            DispatchKey(t, s, p) = key =>
                <<t, s, p>> = <<_get_type(framectl), _get_subtype(framectl),
                                _get_protected(framectl)>>

C2_Witness ==
    /\ pc = "dissected"
    /\ _get_type(framectl) = 1
    /\ _get_subtype(framectl) = 15
    /\ _get_protected(framectl) = 1
    /\ key = 175

\* C3: for every 16-bit frame-control word _dissect computes a dispatch key
\* without raising: the extracted type always indexes TYPE_FACTORS.
C3_DissectNeverRaises == pc # "IndexError"

\* C4: every data subtype s of d_decoder has, at key 64 + s + 128, the
\* secured schema matching d_decoder[s] (never the base schema), and control
\* word 0xC840 yields key 204, which is registered to DataframeQosSecured.
C4_SecuredDataDispatch ==
    Imported =>
        /\ \A s \in DOMAIN d_decoder :
            /\ 64 + s + 128 \in DOMAIN decoder_dict_complete
            /\ d_decoder[s] = "Dataframe" =>
                   decoder_dict_complete[64 + s + 128] = "DataframeSecured"
            /\ d_decoder[s] = "DataframeQos" =>
                   decoder_dict_complete[64 + s + 128] = "DataframeQosSecured"
            /\ decoder_dict_complete[64 + s + 128] \notin {"Dataframe", "DataframeQos"}
        /\ (Dissected /\ _get_type(framectl) = 2 /\ _get_protected(framectl) = 1
                /\ _get_subtype(framectl) \in DOMAIN d_decoder) =>
               key = 64 + _get_subtype(framectl) + 128
        /\ (Dissected /\ framectl = 51264) =>
               (key = 204 /\ decoder_dict_complete[key] = "DataframeQosSecured")

C4_Witness ==
    /\ pc = "dissected"
    /\ framectl = 51264
    /\ key = 204
    /\ decoder_dict_complete[key] = "DataframeQosSecured"

\* C5: decoder_dict_complete holds exactly TYPE_FACTORS[t] + s -> table t's
\* schema for s, plus the key + 128 entries of the data subtypes, and no other
\* key; the key of a (type, subtype) absent from its table, and of a protected
\* management or control frame, is absent from the registry; 0x8000 yields
\* key 24, which is registered to Beacon.
C5_RegistryExact ==
    Imported =>
        /\ DOMAIN decoder_dict_complete =
               {ListGet(<<16, 32, 64>>, t) + s :
                    <<t, s>> \in {x \in (0 .. 2) \X (0 .. 15) :
                                      x[2] \in DOMAIN ListGet(dicts, x[1])}}
               \cup {64 + s + 128 : s \in DOMAIN d_decoder}
        /\ \A t \in 0 .. 2 : \A s \in DOMAIN ListGet(dicts, t) :
               decoder_dict_complete[ListGet(<<16, 32, 64>>, t) + s]
                   = ListGet(dicts, t)[s]
        /\ \A t \in 0 .. 1 : \A s \in 0 .. 15 :
               ListGet(<<16, 32, 64>>, t) + s + 128 \notin DOMAIN decoder_dict_complete
        /\ _handler = decoder_dict_complete
        /\ (Dissected /\ _get_type(framectl) \in {0, 1}
                /\ _get_protected(framectl) = 1) =>
               key \notin DOMAIN decoder_dict_complete
        /\ (Dissected /\ _get_subtype(framectl)
                \notin DOMAIN ListGet(dicts, _get_type(framectl))) =>
               key \notin DOMAIN decoder_dict_complete
        /\ (Dissected /\ framectl = 32768) =>
               (key = 24 /\ decoder_dict_complete[key] = "Beacon")

C5_Witness ==
    /\ pc = "dissected"
    /\ framectl = 32768
    /\ key = 24
    /\ decoder_dict_complete[key] = "Beacon"

\* C10: each body with a trailing IE sequence hands _unpack_ies the bytes from
\* the offset that equals the total width of its fixed fields before params:
\* Beacon and ProbeResp 32, ProbeReq 20, AssocReq 24, AssocResp 26.
C10_ParamsOffsetIsHdrLen ==
    pc = "body" =>
        /\ params_off = HdrLen(BodyHdr(handler))
        /\ params_off =
               (CASE handler \in {"Beacon", "ProbeResp"} -> 32
                  [] handler = "ProbeReq" -> 20
                  [] handler = "AssocReq" -> 24
                  [] handler = "AssocResp" -> 26)

C10_Witness ==
    /\ pc = "body"
    /\ handler = "AssocResp"
    /\ params_off = 26

(***************************************************************************)
(* IEEE80211._unpack_ies                                                   *)
(***************************************************************************)
\* IEs
IE_SSID == 0
IE_RATES == 1
IE_FH == 2
IE_DS == 3
IE_CF == 4
IE_TIM == 5
IE_IBSS == 6
IE_HT_CAPA == 45
IE_ESR == 50
IE_HT_INFO == 61

ie_decoder ==
    (IE_SSID :> "IE") @@ (IE_RATES :> "IE") @@ (IE_FH :> "FH")
    @@ (IE_DS :> "DS") @@ (IE_CF :> "CF") @@ (IE_TIM :> "TIM")
    @@ (IE_IBSS :> "IBSS") @@ (IE_HT_CAPA :> "IE") @@ (IE_ESR :> "IE")
    @@ (IE_HT_INFO :> "IE")

\* try: parser = IEEE80211.ie_decoder[ie_id]
\* except KeyError: parser = IEEE80211.IE
IeParser(ie_id) ==
    IF ie_id \in DOMAIN ie_decoder THEN ie_decoder[ie_id] ELSE "IE"

Min(a, b) == IF a <= b THEN a ELSE b

\* b[i:j] of a bytes object, 0 <= i <= j: the end is clipped to len(b).
Slice(b, i, j) == SubSeq(b, Min(i, Len(b)) + 1, Min(j, Len(b)))

\* b[i] of a bytes object, 0 <= i < len(b).
ByteAt(b, i) == b[i + 1]

\* The element cut one byte short of its payload: a mutant of IeSlice.
IeSlice_ShortByOne(b, o, dlen) == Slice(b, o, o + 1 + dlen)

\* buf[off: off + 2 + dlen]
IeSlice(b, o, dlen) == Slice(b, o, o + 2 + dlen)

\* The offset advanced by the payload alone: a mutant of IeNextOff.
IeNextOff_PayloadOnly(o, dlen) == o + 1 + dlen

\* off += 2 + dlen
IeNextOff(o, dlen) == o + 2 + dlen

\* parser(buf[off: off + 2 + dlen]): the element is the parser class with the
\* bytes it was constructed from.
IeElement(parser, bytes) == [parser |-> parser, bytes |-> bytes]

MaxBufLen == 6
MaxByte == 3

Bytes == 0 .. MaxByte

\* [0x00,0x03,0x41,0x42,0x43, 0x01,0x02,0x82,0x84]
Scenario3 == <<0, 3, 65, 66, 67, 1, 2, 130, 132>>

Buffers ==
    UNION {[1 .. n -> Bytes] : n \in 0 .. MaxBufLen}
    \cup {Scenario3, <<221, 2, 7, 9>>, <<221, 255, 7>>, <<5, 0, 221>>}

InitIE ==
    /\ pc = "unpack"
    /\ buf \in Buffers
    /\ off = 0
    /\ ies = <<>>
    /\ rd = -1
    /\ framectl = 0
    /\ orig = 0 /\ field = "none" /\ val = 0 /\ before = <<>>
    /\ pos = 0 /\ todo = {} /\ decoder_dict_complete = <<>> /\ _handler = <<>>
    /\ key = -1 /\ handler = "none" /\ params_off = -1

\* One pass of "while off < buflen": buf[off + 1] raises IndexError when
\* off + 1 is no index of buf.
unpack_ies_loop ==
    /\ pc = "unpack"
    /\ off < Len(buf)
    /\ rd' = off + 1
    /\ IF off + 1 < Len(buf)
       THEN LET ie_id == ByteAt(buf, off)
                dlen == ByteAt(buf, off + 1)
            IN  /\ ies' = Append(ies, IeElement(IeParser(ie_id), IeSlice(buf, off, dlen)))
                /\ off' = IeNextOff(off, dlen)
                /\ pc' = "unpack"
       ELSE /\ pc' = "IndexError"
            /\ UNCHANGED <<ies, off>>
    /\ UNCHANGED <<buf, framectl, codecVars, registryVars, dispatchVars>>

\* return ies
unpack_ies_return ==
    /\ pc = "unpack"
    /\ ~(off < Len(buf))
    /\ pc' = "returned"
    /\ UNCHANGED <<framectl, codecVars, registryVars, dispatchVars, ieVars>>

NextIE == unpack_ies_loop \/ unpack_ies_return

SpecIE == InitIE /\ [][NextIE]_vars

\* The loop is sequential code: an enabled step is taken.
FairSpecIE == SpecIE /\ WF_vars(NextIE)

IeDone == pc \in {"returned", "IndexError"}

\* b is a concatenation of IEs (id byte, length byte L, L payload bytes)
\* filling it exactly.
RECURSIVE WellFormedIEs(_)
WellFormedIEs(b) ==
    \/ b = <<>>
    \/ /\ Len(b) >= 2
       /\ Len(b) >= 2 + b[2]
       /\ WellFormedIEs(SubSeq(b, 3 + b[2], Len(b)))

\* The number of IEs of a well-formed b.
RECURSIVE CountIEs(_)
CountIEs(b) ==
    IF Len(b) < 2 \/ Len(b) < 2 + b[2] THEN 0
    ELSE 1 + CountIEs(SubSeq(b, 3 + b[2], Len(b)))

\* The complete IEs at the front of b, up to the first one that is cut.
RECURSIVE CompleteIEs(_)
CompleteIEs(b) ==
    IF Len(b) < 2 \/ Len(b) < 2 + b[2] THEN <<>>
    ELSE <<SubSeq(b, 1, 2 + b[2])>> \o CompleteIEs(SubSeq(b, 3 + b[2], Len(b)))

\* b ends in the middle of an IE's payload: after some complete IEs comes one
\* with its length byte whose payload overruns b.
RECURSIVE EndsMidPayload(_)
EndsMidPayload(b) ==
    /\ Len(b) >= 2
    /\ \/ 2 + b[2] > Len(b)
       \/ EndsMidPayload(SubSeq(b, 3 + b[2], Len(b)))

RECURSIVE ConcatBytes(_)
ConcatBytes(es) ==
    IF es = <<>> THEN <<>> ELSE Head(es).bytes \o ConcatBytes(Tail(es))

\* C6: given a buffer that ends in the middle of an IE's payload, _unpack_ies
\* reports a truncation error and returns exactly the elements parsed before
\* the cut one, with no element built from the shortened slice.
C6_TruncationReported ==
    (IeDone /\ EndsMidPayload(buf)) =>
        /\ pc = "TruncatedElement"
        /\ Len(ies) = Len(CompleteIEs(buf))
        /\ \A i \in 1 .. Len(ies) : ies[i].bytes = CompleteIEs(buf)[i]

\* C7: _unpack_ies never subscripts buf at or beyond len(buf): with an id byte
\* and no length byte left it stops and reports the elements decoded so far
\* plus a truncation error instead of indexing buf[off + 1].
C7_NoIndexPastEnd == rd < Len(buf) /\ pc # "IndexError"

\* C8: for a well-formed concatenation of N IEs filling the buffer exactly,
\* _unpack_ies returns N elements in buffer order, each built from the slice
\* of its own IE, back to back, and ends with off = len(buf); scenario 3
\* decodes to (id 0, len 3, "ABC") and (id 1, len 2, 0x82 0x84).
C8_WellFormedDecodes ==
    (IeDone /\ WellFormedIEs(buf)) =>
        /\ pc = "returned"
        /\ off = Len(buf)
        /\ Len(ies) = CountIEs(buf)
        /\ \A i \in 1 .. Len(ies) :
            /\ Len(ies[i].bytes) >= 2
            /\ Len(ies[i].bytes) = 2 + ies[i].bytes[2]
        /\ ConcatBytes(ies) = buf
        /\ buf = Scenario3 =>
               ies = <<IeElement("IE", <<0, 3, 65, 66, 67>>),
                       IeElement("IE", <<1, 2, 130, 132>>)>>

C8_Witness ==
    /\ pc = "returned"
    /\ buf = Scenario3
    /\ off = 9
    /\ Len(ies) = 2

\* C9: the loop of _unpack_ies terminates for every buffer: a pass that stays
\* in the loop advances off by at least 2, at most ceil(len(buf) / 2) passes
\* run, and the run ends by return or by an error.
C9_Terminates ==
    /\ [][(pc = "unpack" /\ pc' = "unpack") => off' >= off + 2]_vars
    /\ [](2 * (Len(ies) + (IF pc = "IndexError" THEN 1 ELSE 0)) <= Len(buf) + 1)
    /\ <>IeDone

C9_Witness ==
    /\ pc = "returned"
    /\ Len(ies) = 3
    /\ Len(buf) = 6
    /\ \A i \in 1 .. 3 : ies[i].bytes[2] = 0
====
